---- MODULE Spec2Model ----
(***************************************************************************)
(* Model of blktrace_to_influx: the blkparse record reader                 *)
(* (blktrace_api.fetch_blkparse_record and its older copy in cli.py), the  *)
(* record's magic/version validation, the action classifier and the        *)
(* pid -> program table of GlobalState.                                    *)
(*                                                                         *)
(* Python integers are unbounded.  A value that needs more than 31 bits    *)
(* (the result of `x & 0xffffff00`, a category with bit 31) is kept as a   *)
(* pair <<high 16 bits, low 16 bits>>; everything else is a plain integer. *)
(* struct's native mode is modelled for a little-endian LP64 build, where  *)
(* Struct("iilliiiiihh").size is 48.                                       *)
(***************************************************************************)
EXTENDS Integers, Sequences, FiniteSets, TLC

VARIABLES
    descs,      \* the records the input file was written from (never changes)
    extra,      \* bytes appended to (> 0) or cut from (< 0) the end of the file
    impl,       \* which fetch_blkparse_record the caller imported: "api" | "cli"
    pos,        \* the file object's cursor
    ret,        \* outcome of the last fetch_blkparse_record call
    returned,   \* history: the records returned so far, in call order
    cursors,    \* history: the cursor before the first call and after each call
    value,      \* the action code handed to classify
    cls,        \* outcome of classify(value), None before the call
    prev,       \* the (value, outcome) of the classify call before the last one
    ppm,        \* GlobalState.ppm: dict pid -> program name
    calls       \* history: the add_program calls made on the GlobalState

vars == <<descs, extra, impl, pos, ret, returned, cursors, value, cls, prev, ppm, calls>>

fetchVars == <<descs, extra, impl, pos, ret, returned, cursors>>
classifyVars == <<value, cls, prev>>
stateVars == <<ppm, calls>>

----------------------------------------------------------------------------
(* Bounds of the model. *)

MaxRecords == 2
MaxPdu == 2
MaxCalls == 2
MaxPayload == 2

----------------------------------------------------------------------------
(* Python values. *)

None == <<>>
Some(x) == <<x>>

Min(a, b) == IF a < b THEN a ELSE b
Max(a, b) == IF a > b THEN a ELSE b

RECURSIVE BitAnd(_, _)
\* a & b for 0 <= a, b
BitAnd(a, b) ==
    IF a = 0 \/ b = 0 THEN 0
    ELSE (a % 2) * (b % 2) + 2 * BitAnd(a \div 2, b \div 2)

\* The low 32 bits of the two's complement of a Python int, as <<high, low>> halves.
W32(x) == <<(x \div 65536) % 65536, x % 65536>>

\* x & mask for a Python int x and a 32-bit mask given as halves.
And32(x, mask) == <<BitAnd(W32(x)[1], mask[1]), BitAnd(W32(x)[2], mask[2])>>

----------------------------------------------------------------------------
(* struct.Struct("iilliiiiihh"), native mode, little-endian LP64. *)

the_record_size == 48

LE16(x) == <<x % 256, (x \div 256) % 256>>
LE32(x) == <<x % 256, (x \div 256) % 256, (x \div 65536) % 256, (x \div 16777216) % 256>>
\* an 8-byte long whose value fits 32 bits: the upper half is the sign extension
LE64(x) == LE32(x) \o (IF x < 0 THEN <<255, 255, 255, 255>> ELSE <<0, 0, 0, 0>>)

RECURSIVE LEValue(_)
\* the unsigned value of little-endian bytes
LEValue(b) == IF b = <<>> THEN 0 ELSE Head(b) + 256 * LEValue(Tail(b))

Complement(b) == [i \in 1..Len(b) |-> 255 - b[i]]

\* the signed value of a little-endian two's complement field ('i', 'l', 'h')
Signed(b) ==
    IF b[Len(b)] >= 128 THEN -LEValue(Complement(b)) - 1 ELSE LEValue(b)

Field(buf, off, size) == Signed(SubSeq(buf, off + 1, off + size))

\* the 11 header fields, at their native offsets
unpack(buf) ==
    << Field(buf, 0, 4),  Field(buf, 4, 4),  Field(buf, 8, 8),  Field(buf, 16, 8),
       Field(buf, 24, 4), Field(buf, 28, 4), Field(buf, 32, 4), Field(buf, 36, 4),
       Field(buf, 40, 4), Field(buf, 44, 2), Field(buf, 46, 2) >>

----------------------------------------------------------------------------
(* BlkparseRecord. *)

magic_mask == <<65535, 65280>>          \* 0xffffff00
magic_expected == <<25953, 29696>>      \* 0x65617400
version_mask == <<0, 255>>              \* 0x000000ff
version_expected == <<0, 7>>            \* 7

\* verify_trace without the version comparison
verify_trace_magic_only(magic) ==
    LET m == And32(magic, magic_mask)
    IN IF m # magic_expected THEN "ValueError" ELSE "True"

\* BlkparseRecord.verify_trace: "True", or the exception it raises
verify_trace(magic) ==
    LET m == And32(magic, magic_mask)
    IN IF m # magic_expected THEN "ValueError"
       ELSE LET version == And32(magic, version_mask)
            IN IF version # version_expected THEN "ValueError" ELSE "True"

Outcome(kind, rec) == [kind |-> kind, rec |-> rec]

\* BlkparseRecord(*unpacked, pdu_data=pdu_data): the dataclass constructor, whose
\* __post_init__ runs verify_trace
BlkparseRecord(unpacked, pdu_data) ==
    IF verify_trace(unpacked[1]) # "True"
    THEN Outcome("ValueError", None)
    ELSE Outcome("record", Some(
             [magic |-> unpacked[1], sequence |-> unpacked[2], time |-> unpacked[3],
              sector |-> unpacked[4], bytes |-> unpacked[5], action |-> unpacked[6],
              pid |-> unpacked[7], device |-> unpacked[8], cpu |-> unpacked[9],
              error |-> unpacked[10], pdu_len |-> unpacked[11],
              pdu_data |-> pdu_data]))

----------------------------------------------------------------------------
(* The reader. *)

\* f.read(n) for n > 0 with the cursor at p: at most n bytes, fewer at end of file
Read(data, p, n) == SubSeq(data, p + 1, Min(p + n, Len(data)))

\* blktrace_api.fetch_blkparse_record: the outcome and the cursor it leaves
fetch_blkparse_record(data, p) ==
    LET buf == Read(data, p, the_record_size)
        p1 == p + Len(buf)
    IN IF Len(buf) # the_record_size
       THEN [ret |-> Outcome("None", None), pos |-> p1]    \* except struct.error
       ELSE LET unpacked == unpack(buf)
                n == unpacked[11]
                pdu == IF n > 0 THEN Read(data, p1, n) ELSE <<>>
                pdu_data == IF n > 0 THEN Some(pdu) ELSE None
            IN [ret |-> BlkparseRecord(unpacked, pdu_data), pos |-> p1 + Len(pdu)]

\* cli.fetch_blkparse_record: the same without the try/except
cli_fetch_blkparse_record(data, p) ==
    LET buf == Read(data, p, the_record_size)
        p1 == p + Len(buf)
    IN IF Len(buf) # the_record_size
       THEN [ret |-> Outcome("struct.error", None), pos |-> p1]
       ELSE LET unpacked == unpack(buf)
                n == unpacked[11]
                pdu == IF n > 0 THEN Read(data, p1, n) ELSE <<>>
                pdu_data == IF n > 0 THEN Some(pdu) ELSE None
            IN [ret |-> BlkparseRecord(unpacked, pdu_data), pos |-> p1 + Len(pdu)]

----------------------------------------------------------------------------
(* The input files. *)

GoodMagic == 1700885511         \* 0x65617407
BadVersion == GoodMagic - 1                 \* 0x65617406
BadMagicLow == GoodMagic + 256              \* 0x65617507
BadMagicTop == GoodMagic - 2147483647 - 1   \* 0xe5617407 read as a signed 'i'
Magics == {GoodMagic, BadVersion, BadMagicLow, BadMagicTop}

WidePdu == 128 * 256            \* 0x8000, the smallest pdu_len with bit 15 set

Descs == [magic : Magics, pdu : 0..MaxPdu, fill : {97}]
WideDesc == [magic |-> GoodMagic, pdu |-> WidePdu, fill |-> 0]

RECURSIVE SeqsUpTo(_, _)
SeqsUpTo(S, n) ==
    IF n = 0 THEN {<<>>}
    ELSE LET shorter == SeqsUpTo(S, n - 1)
         IN shorter \cup {Append(s, x) : s \in {t \in shorter : Len(t) = n - 1}, x \in S}

\* the sequence number written into record k: 2, 4, 1, 3, 0, ... (not in file order)
SeqNo(k) == (7 * k) % 5

Payload(d) == [i \in 1..d.pdu |-> d.fill]

Header(d, k) ==
    LE32(d.magic) \o LE32(SeqNo(k)) \o LE64(1000 * k) \o LE64(8) \o LE32(512)
    \o LE32(1048577) \o LE32(42) \o LE32(8388609) \o LE32(1) \o LE16(-5) \o LE16(d.pdu)

RECURSIVE Encode(_, _)
\* the bytes of records ds[1..n]
Encode(ds, n) ==
    IF n = 0 THEN <<>> ELSE Encode(ds, n - 1) \o Header(ds[n], n) \o Payload(ds[n])

FileBytes ==
    LET body == Encode(descs, Len(descs))
    IN IF extra >= 0 THEN body \o [i \in 1..extra |-> 1]
       ELSE SubSeq(body, 1, Max(Len(body) + extra, 0))

Extras == {-2, -1, 0, 1, the_record_size - 1}

Files == SeqsUpTo(Descs, MaxRecords) \cup {<<WideDesc>>, <<WideDesc, WideDesc>>}

\* the record a well-formed file's k-th record stands for
Rec(d, k) ==
    [magic |-> d.magic, sequence |-> SeqNo(k), time |-> 1000 * k, sector |-> 8,
     bytes |-> 512, action |-> 1048577, pid |-> 42, device |-> 8388609, cpu |-> 1,
     error |-> -5, pdu_len |-> d.pdu,
     pdu_data |-> IF d.pdu > 0 THEN Some(Payload(d)) ELSE None]

----------------------------------------------------------------------------
(* The decode loop: fetch_blkparse_record called until it returns None or raises. *)

IdleFetch ==
    /\ descs = <<>> /\ extra = 0 /\ impl = "api" /\ pos = 0
    /\ ret = Outcome("init", None) /\ returned = <<>> /\ cursors = <<0>>
IdleClassify == value = 0 /\ cls = None /\ prev = None
IdleState == ppm = <<>> /\ calls = <<>>

InitFetch ==
    /\ descs \in Files
    /\ extra \in Extras
    /\ impl \in {"api", "cli"}
    /\ pos = 0
    /\ ret = Outcome("init", None)
    /\ returned = <<>>
    /\ cursors = <<0>>
    /\ IdleClassify /\ IdleState

Fetched(r) ==
    /\ pos' = r.pos
    /\ ret' = r.ret
    /\ returned' = IF r.ret.kind = "record" THEN Append(returned, r.ret.rec[1]) ELSE returned
    /\ cursors' = Append(cursors, r.pos)
    /\ UNCHANGED <<descs, extra, impl, classifyVars, stateVars>>

FetchApi ==
    /\ impl = "api"
    /\ ret.kind \in {"init", "record"}
    /\ Fetched(fetch_blkparse_record(FileBytes, pos))

FetchCli ==
    /\ impl = "cli"
    /\ ret.kind \in {"init", "record"}
    /\ Fetched(cli_fetch_blkparse_record(FileBytes, pos))

NextFetch == FetchApi \/ FetchCli

SpecFetch == InitFetch /\ [][NextFetch]_vars

----------------------------------------------------------------------------
(* The classifier. *)

category_mask == <<65535, 0>>           \* 0xffff0000
subtype_mask_with_cgroup == <<0, 65535>>
subtype_mask == <<0, 65407>>            \* 0x0000ff7f
cgroup_mask == <<0, 128>>               \* 0x00000080

TraceCategory_NOTIFY == <<1024, 0>>     \* 1 << 26

\* TraceCategory(v): a Flag whose members cover all of bits 16..31, so every
\* value with no bit below 16 is a member or a combination of members
TraceCategory(v) == IF v[2] = 0 THEN Some(v) ELSE None

_TraceAction_values == (0..17) \cup {256}      \* NONE, QUEUE .. DRV_DATA, CGROUP
TraceNotify_values == 0..2                      \* PROCESS, TIMESTAMP, MESSAGE

\* Enum lookup by value: the member, or None for the ValueError it raises
_TraceAction(x) ==
    IF x \in _TraceAction_values THEN Some([enum |-> "_TraceAction", value |-> x]) ELSE None
TraceNotify(x) ==
    IF x \in TraceNotify_values THEN Some([enum |-> "TraceNotify", value |-> x]) ELSE None

\* classify(value): the tuple (tc, tr, cg), or the ValueError of a failed lookup
classify(v) ==
    LET tc == TraceCategory(And32(v, category_mask))
        tr == IF tc[1] = TraceCategory_NOTIFY
              THEN TraceNotify(And32(v, subtype_mask)[2])
              ELSE _TraceAction(And32(v, subtype_mask)[2])
        cg == And32(v, cgroup_mask)[2]
    IN IF tc = None \/ tr = None
       THEN [kind |-> "ValueError", val |-> None]
       ELSE [kind |-> "ok", val |-> Some([tc |-> tc[1], tr |-> tr[1], cg |-> cg])]

\* category bits (the upper 16 bits of the action) the model feeds to classify:
\* none, READ, QUEUE, NOTIFY, NOTIFY|READ, NOTIFY|WRITE, DRV_DATA, FUA, FUA|QUEUE
CategoryHalves == {0, 1, 16, 1024, 1025, 1026, 16384, 32768, 32784}
LowHalves ==
    (0..18) \cup {128 + x : x \in 0..18} \cup {127, 255, 256, 257, 384, 385, 32769, 65535}

\* the action field as the reader delivers it: a signed 32-bit integer
ActionValue(hi, lo) == IF hi >= 32768 THEN (hi - 65536) * 65536 + lo ELSE hi * 65536 + lo

Bit7(v) == (v \div 128) % 2 = 1
NotifyBit(v) == (v \div 67108864) % 2 = 1
\* v | 0x80 when the bit is clear, v & ~0x80 when it is set
FlipBit7(v) == IF Bit7(v) THEN v - 128 ELSE v + 128

InitClassify ==
    /\ value \in {ActionValue(hi, lo) : hi \in CategoryHalves, lo \in LowHalves}
    /\ cls = None
    /\ prev = None
    /\ IdleFetch /\ IdleState

Classify ==
    /\ cls = None
    /\ cls' = Some(classify(value))
    /\ UNCHANGED <<value, prev, fetchVars, stateVars>>

\* the caller classifies the same action again with the cgroup bit flipped
Reclassify ==
    /\ cls # None
    /\ prev = None
    /\ prev' = Some([value |-> value, cls |-> cls[1]])
    /\ value' = FlipBit7(value)
    /\ cls' = None
    /\ UNCHANGED <<fetchVars, stateVars>>

NextClassify == Classify \/ Reclassify

SpecClassify == InitClassify /\ [][NextClassify]_vars

----------------------------------------------------------------------------
(* GlobalState. *)

\* bytes.find(b'\0'): the index of the first zero byte, -1 when there is none
Find0(b) ==
    IF \E i \in 1..Len(b) : b[i] = 0
    THEN (CHOOSE i \in 1..Len(b) : b[i] = 0 /\ \A j \in 1..(i - 1) : b[j] # 0) - 1
    ELSE -1

\* b[0:stop]: a negative stop counts from the end
Slice0(b, stop) ==
    IF stop < 0 THEN SubSeq(b, 1, Max(Len(b) + stop, 0)) ELSE SubSeq(b, 1, Min(stop, Len(b)))

RECURSIVE decode_utf_8(_)
\* bytes.decode('utf_8'): the code points, or None for UnicodeDecodeError.  One- and
\* two-byte sequences; the model never feeds it a lead byte of a longer sequence.
decode_utf_8(b) ==
    IF b = <<>> THEN Some(<<>>)
    ELSE IF b[1] < 128
         THEN LET rest == decode_utf_8(Tail(b))
              IN IF rest = None THEN None ELSE Some(<<b[1]>> \o rest[1])
    ELSE IF b[1] \in 194..223 /\ Len(b) >= 2 /\ b[2] \in 128..191
         THEN LET rest == decode_utf_8(Tail(Tail(b)))
              IN IF rest = None THEN None
                 ELSE Some(<<(b[1] - 192) * 64 + (b[2] - 128)>> \o rest[1])
    ELSE None

\* d[k] = v
DictSet(d, k, v) == [x \in DOMAIN d \cup {k} |-> IF x = k THEN v ELSE d[x]]

\* add_program that rebinds self.ppm to a new one-entry dict
add_program_fresh(d, r) ==
    IF r.pdu_data = None THEN [ppm |-> d, raised |-> "AttributeError", program |-> None]
    ELSE LET offset == Find0(r.pdu_data[1])
             program == IF offset # 0
                        THEN decode_utf_8(Slice0(r.pdu_data[1], offset))
                        ELSE decode_utf_8(r.pdu_data[1])
         IN IF program = None
            THEN [ppm |-> d, raised |-> "UnicodeDecodeError", program |-> None]
            ELSE [ppm |-> DictSet(<<>>, r.pid, program[1]), raised |-> "", program |-> program]

\* GlobalState.add_program(r): the dict afterwards, the exception raised ("" for
\* none) and the name stored
add_program(d, r) ==
    IF r.pdu_data = None THEN [ppm |-> d, raised |-> "AttributeError", program |-> None]
    ELSE LET offset == Find0(r.pdu_data[1])
             program == IF offset # 0
                        THEN decode_utf_8(Slice0(r.pdu_data[1], offset))
                        ELSE decode_utf_8(r.pdu_data[1])
         IN IF program = None
            THEN [ppm |-> d, raised |-> "UnicodeDecodeError", program |-> None]
            ELSE [ppm |-> DictSet(d, r.pid, program[1]), raised |-> "", program |-> program]

\* GlobalState.ppm_by_pid(pid): the name, or None
ppm_by_pid(pid) == IF pid \in DOMAIN ppm THEN Some(ppm[pid]) ELSE None

Pids == {42, 7}
\* payloads over NUL and 'a', plus "\xff", "a\0\xff", "a\0a" and "\xc3\xa9"
Payloads ==
    SeqsUpTo({0, 97}, MaxPayload)
    \cup {<<255>>, <<97, 0, 255>>, <<97, 0, 97>>, <<195, 169>>}
PduInputs == {None} \cup {Some(b) : b \in Payloads}

InitState ==
    /\ ppm = <<>>
    /\ calls = <<>>
    /\ IdleFetch /\ IdleClassify

AddProgram ==
    /\ Len(calls) < MaxCalls
    /\ \E pid \in Pids, pdu_data \in PduInputs :
         LET r == [pid |-> pid, pdu_data |-> pdu_data]
             res == add_program(ppm, r)
         IN /\ ppm' = res.ppm
            /\ calls' = Append(calls, [pid |-> pid, pdu_data |-> pdu_data,
                                        raised |-> res.raised, program |-> res.program])
    /\ UNCHANGED <<fetchVars, classifyVars>>

NextState == AddProgram

SpecState == InitState /\ [][NextState]_vars

----------------------------------------------------------------------------
(* Properties of the reader. *)

ncalls == Len(cursors) - 1
\* the cursor when the last call started
prevPos == cursors[Len(cursors) - 1]
\* the bytes that were left when the last call started
Remaining == Len(FileBytes) - prevPos
\* the first four bytes the last call read
MagicBytes == SubSeq(FileBytes, prevPos + 1, prevPos + 4)

\* C1: a call of blktrace_api.fetch_blkparse_record (the one with an end-of-stream
\* result) that starts with zero bytes left returns None, and a call that starts
\* with 1..47 bytes left fails with an error instead of returning None.
TruncatedHeaderIsNotEndOfStream ==
    (impl = "api" /\ ncalls > 0) =>
        /\ (Remaining = 0 => ret.kind = "None")
        /\ (Remaining \in 1..(the_record_size - 1) => ret.kind = "struct.error")

\* C2: every record returned with pdu_len > 0 carries a payload of exactly pdu_len
\* bytes.
PayloadLengthIsPduLen ==
    \A i \in 1..Len(returned) :
        returned[i].pdu_len > 0 =>
            /\ returned[i].pdu_data # None
            /\ Len(returned[i].pdu_data[1]) = returned[i].pdu_len

\* C3: a record exists only with a valid magic: every returned record has version
\* byte 7 and upper 24 bits 0x656174, and a call that read a full header returns a
\* record exactly when the header starts with the bytes 07 74 61 65 and raises
\* ValueError for every other magic.
RecordOnlyWithValidMagic ==
    /\ \A i \in 1..Len(returned) :
           /\ returned[i].magic % 256 = 7
           /\ (returned[i].magic \div 256) % 16777216 = 6644084
    /\ (ncalls > 0 /\ Remaining >= the_record_size) =>
           IF MagicBytes = <<7, 116, 97, 101>>
           THEN ret.kind = "record"
           ELSE ret.kind = "ValueError"

\* C3 witness: after one record was returned, a header whose magic differs from the
\* valid one in the version byte alone was rejected with ValueError.
WrongVersionRejected ==
    /\ Len(returned) >= 1
    /\ ncalls > 0 /\ Remaining >= the_record_size
    /\ MagicBytes = <<6, 116, 97, 101>>
    /\ ret.kind = "ValueError"

\* C9: a call that fails the magic/version check has consumed the 48 header bytes
\* and nothing of the payload.
MagicCheckedBeforePayloadRead ==
    (ncalls > 0 /\ ret.kind = "ValueError") => pos - prevPos = the_record_size

\* a file of complete records with valid headers and nothing after them
WellFormedFile ==
    /\ extra = 0
    /\ \A k \in 1..Len(descs) : descs[k].magic = GoodMagic

\* the first n calls returned records 1..n of the file, each advancing the cursor
\* by the header size plus the record's pdu_len, and call Len(descs) + 1, if made,
\* returned None
SequentialDecode ==
    /\ ncalls <= Len(descs) + 1
    /\ \A k \in 1..Min(ncalls, Len(descs)) :
           /\ cursors[k + 1] - cursors[k] = the_record_size + descs[k].pdu
           /\ Len(returned) >= k
           /\ returned[k] = Rec(descs[k], k)
    /\ ncalls = Len(descs) + 1 => (ret.kind = "None" /\ Len(returned) = Len(descs))

\* C10: on a file of N well-formed records (pdu_len an unsigned 16-bit field),
\* repeated calls return the N records in file order, each advancing the cursor by
\* 48 + pdu_len whatever the sequence numbers, and call N + 1 returns None.
FetchReturnsRecordsInFileOrder ==
    (impl = "api" /\ WellFormedFile) => SequentialDecode

\* The same for files whose pdu_len fields have bit 15 clear: this one holds.
FetchReturnsNarrowRecordsInFileOrder ==
    (impl = "api" /\ WellFormedFile /\ \A k \in 1..Len(descs) : descs[k].pdu < WidePdu)
        => SequentialDecode

----------------------------------------------------------------------------
(* Properties of the classifier. *)

Classified == cls # None /\ cls[1].kind = "ok"

\* C5: the subtype of a classified action is a notify subtype exactly when the
\* NOTIFY bit (1 << 26) is set in the action, other category bits or not.
NotifyBitSelectsVocabulary ==
    Classified => (cls[1].val[1].tr.enum = "TraceNotify" <=> NotifyBit(value))

\* C6: for an action whose category is NOTIFY alone or has no NOTIFY bit, classify
\* succeeds exactly when action & 0x7F is a code of the selected vocabulary (1..17
\* ordinary, 0..2 notify), and the subtype is that code, whatever bits 8..15 are.
SubtypeIsLowSevenBits ==
    (cls # None /\ (And32(value, category_mask) = TraceCategory_NOTIFY \/ ~NotifyBit(value))) =>
        LET code == value % 128
            vocabulary == IF NotifyBit(value) THEN 0..2 ELSE 1..17
        IN /\ cls[1].kind = "ok" <=> code \in vocabulary
           /\ cls[1].kind = "ok" => cls[1].val[1].tr.value = code

\* C7: classifying an action and the same action with bit 0x80 flipped gives the
\* same outcome, and on success the same category and subtype; the cgroup
\* indicator is set exactly when bit 0x80 of the classified action is.
CgroupFlagIsOrthogonal ==
    /\ Classified => (cls[1].val[1].cg # 0 <=> Bit7(value))
    /\ (cls # None /\ prev # None) =>
           /\ cls[1].kind = prev[1].cls.kind
           /\ cls[1].kind = "ok" =>
                  /\ cls[1].val[1].tc = prev[1].cls.val[1].tc
                  /\ cls[1].val[1].tr = prev[1].cls.val[1].tr
                  /\ (prev[1].cls.val[1].cg # 0 <=> Bit7(prev[1].value))

\* C7 witness: an action was classified with and without bit 0x80, both times
\* successfully, and the two cgroup indicators differ.
ClassifiedWithAndWithoutCgroup ==
    /\ Classified /\ prev # None
    /\ prev[1].cls.kind = "ok"
    /\ value = FlipBit7(prev[1].value)
    /\ cls[1].val[1].cg # prev[1].cls.val[1].cg

----------------------------------------------------------------------------
(* Properties of GlobalState. *)

RECURSIVE CPrefix(_)
\* the bytes before the first zero byte, all of them when there is none
CPrefix(b) == IF b = <<>> \/ Head(b) = 0 THEN <<>> ELSE <<Head(b)>> \o CPrefix(Tail(b))

\* C4: after add_program on a record with a payload whose C-string prefix is valid
\* UTF-8, the name of record.pid is that prefix: the bytes before the first zero
\* byte, or the whole payload when it has none.
ProgramNameIsCStringPrefix ==
    \A i \in 1..Len(calls) :
        LET c == calls[i]
        IN (c.pdu_data # None /\ decode_utf_8(CPrefix(c.pdu_data[1])) # None) =>
              /\ c.raised = ""
              /\ c.program = decode_utf_8(CPrefix(c.pdu_data[1]))
              /\ (i = Len(calls) => ppm_by_pid(c.pid) = c.program)

RECURSIVE LastStored(_, _)
\* the name stored by the last call of the log that stored one for pid p
LastStored(log, p) ==
    IF log = <<>> THEN None
    ELSE LET c == log[Len(log)]
         IN IF c.pid = p /\ c.raised = "" THEN c.program
            ELSE LastStored(SubSeq(log, 1, Len(log) - 1), p)

\* C8: ppm_by_pid(p) is the name stored by the most recent add_program call for
\* pid p and None when no call stored one; no step removes an entry, and a call
\* for one pid changes no other pid's entry.
PpmLastWriteWins ==
    /\ [](\A p \in Pids \cup {0} : ppm_by_pid(p) = LastStored(calls, p))
    /\ [][/\ DOMAIN ppm \subseteq DOMAIN ppm'
          /\ calls' # calls =>
                \A p \in (Pids \cup {0}) \ {calls'[Len(calls')].pid} :
                    ppm_by_pid(p)' = ppm_by_pid(p)]_vars

\* C8 witness: two calls stored different names for the same pid.
NameOverwritten ==
    /\ Len(calls) >= 2
    /\ calls[1].pid = calls[2].pid
    /\ calls[1].raised = "" /\ calls[2].raised = ""
    /\ calls[1].program # calls[2].program
    /\ ppm_by_pid(calls[2].pid) = calls[2].program

====
